---- MODULE Spec2Model ----
(***************************************************************************)
(* git-relevant-history: main() and build_git_filter_path_spec() of        *)
(* src/gitrelevanthistory/main.py as a state machine.                      *)
(*                                                                         *)
(* A path is a tuple of its components: "d/a" is <<"d", "a">>, the empty   *)
(* path "" (and ".") is <<>>.  Paths inside the temporary work directory   *)
(* start with the component "repo" (workclone = workdir / "repo").         *)
(* External commands and the filesystem are the environment: each call     *)
(* that the code makes with check_call / check_output may fail, and the    *)
(* target location may be created by somebody else while the run is busy.  *)
(***************************************************************************)
EXTENDS Integers, Sequences, FiniteSets, TLC

VARIABLES
    pc,               \* position of main()
    arguments,        \* docopt result: --only-specs, --force, --glob, --filter
    toolState,        \* environment: is "git filter-repo" installed
    sourceState,      \* environment: what --source names
    cwdKind,          \* environment: what pathlib.Path(filter) names (cwd-relative)
    target,           \* filesystem: what is at the target location
    targetOps,        \* operations main() has applied to the target location
    invoked,          \* external commands main() has run so far
    variant,          \* branch of build_git_filter_path_spec that was taken
    infile,           \* lines of the filter file while it is open
    init_files_list,  \* build_git_filter_path_spec: init_files_list
    idx,              \* loop position in the two loops over init_files_list
    all_filter_paths, \* build_git_filter_path_spec: all_filter_paths / filenameset
    warned,           \* files whose history query failed (logger.warning)
    artifact,         \* filter_path_specs.txt
    stdout,           \* what print() wrote
    head,             \* files of the work clone's HEAD commit
    index,            \* files staged in the work clone's index
    is_dirty,         \* return code of git diff-index
    commits,          \* commits created by main()
    critical,         \* logger.critical message
    exit              \* how main() ended

vars == <<pc, arguments, toolState, sourceState, cwdKind, target, targetOps,
          invoked, variant, infile, init_files_list, idx, all_filter_paths,
          warned, artifact, stdout, head, index, is_dirty, commits, critical,
          exit>>

\* ---------------------------------------------------------------- bounds
MaxLines == 2      \* lines of a filter file
MaxLogLines == 2   \* lines of a git log output after the file's own name

\* ------------------------------------------------------------ file system
\* the work clone: workdir / "repo"
workclone == <<"repo">>

\* tracked regular files of the cloned branch, relative to the clone root
CloneFiles == {<<"a">>, <<"d", "a">>, <<"d", "b">>}

\* directories of the clone, relative to the clone root (the root is <<>>)
CloneDirs == {<<"d">>}

\* a former name that no file of HEAD carries any more
OldName == <<"old">>

IsPrefix(p, q) == Len(p) <= Len(q) /\ SubSeq(q, 1, Len(p)) = p

\* git_repo / relative
Join(base, rel) == base \o rel

\* path.relative_to(git_repo)
RelativeTo(path, base) == SubSeq(path, Len(base) + 1, Len(path))

\* pathlib.Path.is_file / is_dir on a path inside the work directory
is_file(path) == IsPrefix(workclone, path) /\ RelativeTo(path, workclone) \in CloneFiles

is_dir(path) ==
    IsPrefix(workclone, path) /\ RelativeTo(path, workclone) \in CloneDirs \cup {<<>>}

Match(component, pat) == pat = "*" \/ pat = component

\* pathlib.Path(base).rglob(pattern): every entry below base whose last
\* components match the pattern
rglob(base, pattern) ==
    { Join(workclone, e) : e \in
        { e \in CloneFiles \cup CloneDirs :
            /\ IsPrefix(base, Join(workclone, e))
            /\ Len(Join(workclone, e)) - Len(base) >= Len(pattern)
            /\ Len(pattern) >= 1
            /\ \A i \in 1..Len(pattern) :
                  Match(e[Len(e) - Len(pattern) + i], pattern[i]) } }

Range(s) == { s[i] : i \in 1..Len(s) }

\* list(a_set): the elements of a set, once each
RECURSIVE list(_)
list(S) == IF S = {} THEN <<>>
           ELSE LET x == CHOOSE y \in S : TRUE IN <<x>> \o list(S \ {x})

BSeq(S, n) == UNION { [1..k -> S] : k \in 0..n }

\* ------------------------------------------------------------- filter file
\* a raw line of the filter file: a path, possibly padded with white space
RawLines ==
    { [p |-> <<>>, ws |-> FALSE], [p |-> <<>>, ws |-> TRUE],
      [p |-> <<"a">>, ws |-> FALSE], [p |-> <<"d">>, ws |-> FALSE],
      [p |-> <<"d", "a">>, ws |-> TRUE] }

FilterFiles == BSeq(RawLines, MaxLines)

\* str.strip()
strip(line) == line.p

\* ---------------------------------------------------------------- main()
FilterArgs == {<<>>, <<"d">>, <<"x">>}

\* lines 156-158: glob_filter_file = "False"; True when --glob or -g
glob_filter_file(args) ==
    IF args.glob THEN [type |-> "bool", value |-> "True"]
    ELSE [type |-> "str", value |-> "False"]

\* Python truth value of a bool or a str
Truthy(v) == IF v.type = "bool" THEN v.value = "True" ELSE v.value # ""

Init ==
    /\ pc = "probe"
    /\ arguments \in [onlySpecs : BOOLEAN, force : BOOLEAN, glob : BOOLEAN,
                      filter : FilterArgs]
    /\ toolState \in {"present", "nogit", "nosubcommand"}
    /\ sourceState \in {"repo", "notdir", "nogitdir"}
    /\ cwdKind \in {"absent", "file", "dir"}
    /\ arguments.filter = <<>> => cwdKind = "dir"
    /\ target \in {"absent", "old"}
    /\ targetOps = {}
    /\ invoked = {}
    /\ variant = "none"
    /\ infile = <<>>
    /\ init_files_list = <<>>
    /\ idx = 1
    /\ all_filter_paths = <<>>
    /\ warned = {}
    /\ artifact = [written |-> FALSE, lines |-> <<>>]
    /\ stdout = [printed |-> FALSE, lines |-> <<>>]
    /\ head = {}
    /\ index = {}
    /\ is_dirty = 0
    /\ commits = 0
    /\ critical = "none"
    /\ exit = "running"

\* raise SystemExit(-1) after logger.critical(msg)
Fatal(msg) == /\ pc' = "done" /\ exit' = "fatal" /\ critical' = msg

\* an exception nobody catches leaves main()
Raise == /\ pc' = "done" /\ exit' = "exception" /\ critical' = critical

Goto(l) == /\ pc' = l /\ exit' = exit /\ critical' = critical

\* lines 134-139: check_call(["git", "filter-repo", "--version"]) raises
\* FileNotFoundError without a git binary and CalledProcessError when git
\* exits non-zero; only the first is caught
Probe ==
    /\ pc = "probe"
    /\ invoked' = invoked \cup {"filter-repo --version"}
    /\ \/ toolState = "present" /\ Goto("source")
       \/ toolState = "nogit" /\ Fatal("no-filter-repo")
       \/ toolState = "nosubcommand" /\ Raise
    /\ UNCHANGED <<arguments, toolState, sourceState, cwdKind, target, targetOps,
                   variant, infile, init_files_list, idx,
                   all_filter_paths, warned, artifact, stdout, head, index,
                   is_dirty, commits>>

\* lines 141-148
ValidateSource ==
    /\ pc = "source"
    /\ \/ sourceState = "notdir" /\ Fatal("source-not-dir")
       \/ sourceState = "nogitdir" /\ Fatal("source-no-git")
       \/ sourceState = "repo" /\ Goto("options")
    /\ UNCHANGED <<arguments, toolState, sourceState, cwdKind, target, targetOps,
                   invoked, variant, infile, init_files_list, idx,
                   all_filter_paths, warned, artifact, stdout, head, index,
                   is_dirty, commits>>

\* lines 150-158.  docopt keys an option that has a short and a long form
\* ("-g --glob") by its long form alone, so the dictionary has no "-g":
\* arguments["--glob"] or arguments["-g"] ends the test when --glob is set
\* and raises KeyError when it is not.
ReadOptions ==
    /\ pc = "options"
    /\ IF arguments.glob THEN Goto("target") ELSE Raise
    /\ UNCHANGED <<arguments, toolState, sourceState, cwdKind, target, targetOps,
                   invoked, variant, infile, init_files_list, idx,
                   all_filter_paths, warned, artifact, stdout, head, index,
                   is_dirty, commits>>

\* lines 161, 263: target_repo.exists(); "removed" is a target that
\* main() has removed
TargetPresent == target \notin {"absent", "removed"}

\* lines 160-166
ValidateTarget ==
    /\ pc = "target"
    /\ IF TargetPresent /\ ~arguments.onlySpecs
       THEN IF arguments.force THEN Goto("clone") ELSE Fatal("target-exists")
       ELSE Goto("clone")
    /\ UNCHANGED <<arguments, toolState, sourceState, cwdKind, target, targetOps,
                   invoked, variant, infile, init_files_list, idx,
                   all_filter_paths, warned, artifact, stdout, head, index,
                   is_dirty, commits>>

\* lines 170-184: git clone into workdir / "repo"
Clone ==
    /\ pc = "clone"
    /\ invoked' = invoked \cup {"clone"}
    /\ \/ /\ Goto("select")
          /\ head' = CloneFiles
          /\ index' = CloneFiles
       \/ /\ Raise
          /\ UNCHANGED <<head, index>>
    /\ UNCHANGED <<arguments, toolState, sourceState, cwdKind, target, targetOps,
                   variant, infile, init_files_list, idx, all_filter_paths,
                   warned, artifact, stdout, is_dirty, commits>>

\* ------------------------------------------- build_git_filter_path_spec()
\* line 45: pathlib.Path(filter).exists(), resolved against the current directory
exists(filter) == cwdKind # "absent"

\* lines 67-71: the lines read before the first line that strips to ""
RECURSIVE GlobPatterns(_)
GlobPatterns(lines) ==
    IF lines = <<>> \/ strip(Head(lines)) = <<>> THEN <<>>
    ELSE <<strip(Head(lines))>> \o GlobPatterns(Tail(lines))

\* line 63: one entry per line, git_repo / line.strip()
ExplicitList(git_repo, lines) ==
    [i \in 1..Len(lines) |-> Join(git_repo, strip(lines[i]))]

\* lines 65-73: the union of the matches of every pattern read
GlobList(git_repo, lines) ==
    list(UNION { rglob(git_repo, pat) : pat \in Range(GlobPatterns(lines)) })

\* lines 45-57: the filter does not exist, it is taken as a subdirectory.
\* str_subdir + '/' names the same directory as str_subdir.
SelectSubdirectory ==
    /\ pc = "select"
    /\ ~exists(arguments.filter)
    /\ variant' = "Subdirectory"
    /\ LET git_repo_subdir == Join(workclone, arguments.filter) IN
         IF ~is_dir(git_repo_subdir)
         THEN /\ Fatal("filter-not-dir")
              /\ UNCHANGED init_files_list
         ELSE /\ Goto("checkEmpty")
              /\ init_files_list' = list(rglob(git_repo_subdir, <<"*">>))
    /\ UNCHANGED <<arguments, toolState, sourceState, cwdKind, target, targetOps,
                   invoked, infile, idx, all_filter_paths, warned, artifact,
                   stdout, head, index, is_dirty, commits>>

\* lines 58-73: the filter exists, it is opened and read as a list.
\* open() of a directory raises IsADirectoryError.
ReadFilterFile ==
    /\ pc = "select"
    /\ exists(arguments.filter)
    /\ \/ /\ cwdKind = "dir"
          /\ Raise
          /\ UNCHANGED <<variant, infile, init_files_list>>
       \/ /\ cwdKind = "file"
          /\ \E lines \in FilterFiles :
               /\ infile' = lines
               /\ IF ~Truthy(glob_filter_file(arguments))
                  THEN /\ variant' = "ExplicitFileList"
                       /\ init_files_list' = ExplicitList(workclone, lines)
                  ELSE /\ variant' = "GlobPatternList"
                       /\ init_files_list' = GlobList(workclone, lines)
          /\ Goto("checkEmpty")
    /\ UNCHANGED <<arguments, toolState, sourceState, cwdKind, target, targetOps,
                   invoked, idx, all_filter_paths, warned, artifact, stdout,
                   head, index, is_dirty, commits>>

\* lines 75-77 (the filter file is closed by now)
CheckEmpty ==
    /\ pc = "checkEmpty"
    /\ infile' = <<>>
    /\ IF Len(init_files_list) = 0 THEN Fatal("no-match") ELSE Goto("resolve")
    /\ UNCHANGED <<arguments, toolState, sourceState, cwdKind, target, targetOps,
                   invoked, variant, init_files_list, idx, all_filter_paths,
                   warned, artifact, stdout, head, index, is_dirty, commits>>

\* what git log --pretty=format: --name-only --follow prints for a tracked
\* file: its own name, then blank lines and names it had in earlier commits
LogLines == CloneFiles \cup {OldName, <<>>}

GitLogOutputs(repo_path) ==
    { <<repo_path>> \o rest : rest \in BSeq(LogLines, MaxLogLines) }

\* lines 91, 107-109: the file's own path and every non-empty line of the log
UniquePaths(repo_path, gitlog) ==
    {repo_path} \cup { gitlog[i] : i \in { j \in 1..Len(gitlog) : Len(gitlog[j]) > 0 } }

\* lines 83-119: one iteration of the loop over init_files_list
ResolveEntry ==
    /\ pc = "resolve"
    /\ idx <= Len(init_files_list)
    /\ idx' = idx + 1
    /\ LET path == init_files_list[idx] IN
         IF is_file(path)
         THEN LET repo_path == RelativeTo(path, workclone) IN
                /\ invoked' = invoked \cup {"log"}
                /\ \/ \E gitlog \in GitLogOutputs(repo_path) :
                        /\ all_filter_paths' =
                              all_filter_paths \o list(UniquePaths(repo_path, gitlog))
                        /\ UNCHANGED warned
                   \/ /\ warned' = warned \cup {repo_path}
                      /\ UNCHANGED all_filter_paths
         ELSE UNCHANGED <<invoked, all_filter_paths, warned>>
    /\ Goto("resolve")
    /\ UNCHANGED <<arguments, toolState, sourceState, cwdKind, target, targetOps,
                   variant, infile, init_files_list, artifact, stdout, head,
                   index, is_dirty, commits>>

\* line 124: return all_filter_paths, init_files_list
ReturnSpec ==
    /\ pc = "resolve"
    /\ idx > Len(init_files_list)
    /\ Goto("write")
    /\ UNCHANGED <<arguments, toolState, sourceState, cwdKind, target, targetOps,
                   invoked, variant, infile, init_files_list, idx,
                   all_filter_paths, warned, artifact, stdout, head, index,
                   is_dirty, commits>>

\* ------------------------------------------------------- main(), continued
\* a main() that forgets the early return of --only-specs
AfterWriteNoReturn(onlySpecs) == "filter"

\* lines 195-198: with --only-specs the file is printed and main() returns
AfterWrite(onlySpecs) == IF onlySpecs THEN "print" ELSE "filter"

\* lines 187-193: one line per element of filenameset
WriteSpecs ==
    /\ pc = "write"
    /\ \/ /\ artifact' = [written |-> TRUE, lines |-> all_filter_paths]
          /\ Goto(AfterWrite(arguments.onlySpecs))
       \/ /\ Raise
          /\ UNCHANGED artifact
    /\ UNCHANGED <<arguments, toolState, sourceState, cwdKind, target, targetOps,
                   invoked, variant, infile, init_files_list, idx,
                   all_filter_paths, warned, stdout, head, index, is_dirty,
                   commits>>

\* lines 195-198
PrintSpecs ==
    /\ pc = "print"
    /\ stdout' = [printed |-> TRUE, lines |-> artifact.lines]
    /\ pc' = "done"
    /\ exit' = "success"
    /\ UNCHANGED <<arguments, toolState, sourceState, cwdKind, target, targetOps,
                   invoked, variant, infile, init_files_list, idx,
                   all_filter_paths, warned, artifact, head, index, is_dirty,
                   commits, critical>>

\* git filter-repo --paths-from-file: a file stays when one of the listed
\* paths is the file or a directory above it
Retained(files, paths) == { f \in files : \E p \in Range(paths) : IsPrefix(p, f) }

\* lines 200-209.  With an empty path list nothing is filtered.
FilterRepo ==
    /\ pc = "filter"
    /\ invoked' = invoked \cup {"filter-repo"}
    /\ \/ /\ head' = IF artifact.lines = <<>> THEN head
                     ELSE Retained(head, artifact.lines)
          /\ index' = head'
          /\ Goto("wipe")
       \/ /\ Raise
          /\ UNCHANGED <<head, index>>
    /\ UNCHANGED <<arguments, toolState, sourceState, cwdKind, target, targetOps,
                   variant, infile, init_files_list, idx, all_filter_paths,
                   warned, artifact, stdout, is_dirty, commits>>

\* lines 211-220: git rm -rf . stages the deletion of every tracked file
WipeAll ==
    /\ pc = "wipe"
    /\ invoked' = invoked \cup {"rm"}
    /\ \/ /\ head # {}
          /\ index' = {}
          /\ idx' = 1
          /\ Goto("restore")
       \/ /\ Raise
          /\ UNCHANGED <<index, idx>>
    /\ UNCHANGED <<arguments, toolState, sourceState, cwdKind, target, targetOps,
                   variant, infile, init_files_list, all_filter_paths, warned,
                   artifact, stdout, head, is_dirty, commits>>

\* git checkout HEAD -- <path>: the files of HEAD at or below the path
Pathspec(file) == { f \in head : IsPrefix(RelativeTo(file, workclone), f) }

\* lines 225-236: one iteration; checkout fails when the path matches
\* nothing in HEAD
RestoreEntry ==
    /\ pc = "restore"
    /\ idx <= Len(init_files_list)
    /\ invoked' = invoked \cup {"checkout"}
    /\ LET file == init_files_list[idx] IN
         \/ /\ Pathspec(file) # {}
            /\ index' = index \cup Pathspec(file)
            /\ idx' = idx + 1
            /\ Goto("restore")
         \/ /\ Raise
            /\ UNCHANGED <<index, idx>>
    /\ UNCHANGED <<arguments, toolState, sourceState, cwdKind, target, targetOps,
                   variant, infile, init_files_list, all_filter_paths, warned,
                   artifact, stdout, head, is_dirty, commits>>

\* git diff-index --quiet --cached HEAD: 0 when the index equals HEAD,
\* 1 when it differs, 128 when the command itself fails
DiffIndex == {IF index = head THEN 0 ELSE 1, 128}

\* lines 238-248: subprocess.call returns the exit status, whatever it is
DirtyCheck ==
    /\ pc = "restore"
    /\ idx > Len(init_files_list)
    /\ invoked' = invoked \cup {"diff-index"}
    /\ \E rc \in DiffIndex : is_dirty' = rc
    /\ Goto("commit")
    /\ UNCHANGED <<arguments, toolState, sourceState, cwdKind, target, targetOps,
                   variant, infile, init_files_list, idx, all_filter_paths,
                   warned, artifact, stdout, head, index, commits>>

\* a main() that commits without looking at the dirty check
AlwaysCommit(rc) == TRUE

\* line 250: if is_dirty
ShouldCommit(rc) == rc # 0

\* lines 250-260: git commit refuses to commit an index equal to HEAD
Commit ==
    /\ pc = "commit"
    /\ ShouldCommit(is_dirty)
    /\ invoked' = invoked \cup {"commit"}
    /\ \/ /\ index # head
          /\ head' = index
          /\ commits' = commits + 1
          /\ Goto("move")
       \/ /\ Raise
          /\ UNCHANGED <<head, commits>>
    /\ UNCHANGED <<arguments, toolState, sourceState, cwdKind, target, targetOps,
                   variant, infile, init_files_list, idx, all_filter_paths,
                   warned, artifact, stdout, index, is_dirty>>

\* line 250, is_dirty is 0
SkipCommit ==
    /\ pc = "commit"
    /\ ~ShouldCommit(is_dirty)
    /\ Goto("move")
    /\ UNCHANGED <<arguments, toolState, sourceState, cwdKind, target, targetOps,
                   invoked, variant, infile, init_files_list, idx,
                   all_filter_paths, warned, artifact, stdout, head, index,
                   is_dirty, commits>>

\* line 263: target_repo.exists()
TargetExists ==
    /\ pc = "move"
    /\ IF TargetPresent THEN Goto("rmtree") ELSE Goto("store")
    /\ UNCHANGED <<arguments, toolState, sourceState, cwdKind, target, targetOps,
                   invoked, variant, infile, init_files_list, idx,
                   all_filter_paths, warned, artifact, stdout, head, index,
                   is_dirty, commits>>

\* line 264: shutil.rmtree(target_repo) removes the directory; a failure
\* leaves it as it was or with part of its content gone
RmTree ==
    /\ pc = "rmtree"
    /\ targetOps' = targetOps \cup {"rmtree"}
    /\ \/ /\ target' = "removed"
          /\ Goto("store")
       \/ /\ target' \in {target, "damaged"}
          /\ Raise
    /\ UNCHANGED <<arguments, toolState, sourceState, cwdKind, invoked, variant,
                   infile, init_files_list, idx, all_filter_paths, warned,
                   artifact, stdout, head, index, is_dirty, commits>>

\* lines 265-269: shutil.move(workclone, target_repo) renames the clone to
\* the target, or into it when the target is an existing directory; a
\* failure leaves the target location as it is
Move ==
    /\ pc = "store"
    /\ targetOps' = targetOps \cup {"move"}
    /\ \/ /\ target' = IF TargetPresent THEN "nested" ELSE "result"
          /\ pc' = "done"
          /\ exit' = "success"
          /\ critical' = critical
       \/ /\ target' = target
          /\ Raise
    /\ UNCHANGED <<arguments, toolState, sourceState, cwdKind, invoked, variant,
                   infile, init_files_list, idx, all_filter_paths, warned,
                   artifact, stdout, head, index, is_dirty, commits>>

\* environment: another process creates the target location during the run
TargetAppears ==
    /\ exit = "running"
    /\ ~TargetPresent
    /\ target' = "foreign"
    /\ UNCHANGED <<pc, arguments, toolState, sourceState, cwdKind, targetOps,
                   invoked, variant, infile, init_files_list, idx,
                   all_filter_paths, warned, artifact, stdout, head, index,
                   is_dirty, commits, critical, exit>>

Next ==
    \/ Probe
    \/ ValidateSource
    \/ ReadOptions
    \/ ValidateTarget
    \/ Clone
    \/ SelectSubdirectory
    \/ ReadFilterFile
    \/ CheckEmpty
    \/ ResolveEntry
    \/ ReturnSpec
    \/ WriteSpecs
    \/ PrintSpecs
    \/ FilterRepo
    \/ WipeAll
    \/ RestoreEntry
    \/ DirtyCheck
    \/ Commit
    \/ SkipCommit
    \/ TargetExists
    \/ RmTree
    \/ Move
    \/ TargetAppears

Spec == Init /\ [][Next]_vars

\* ------------------------------------------------------------- properties
NoDuplicates(s) == Cardinality(Range(s)) = Len(s)

\* the clone was made and build_git_filter_path_spec has chosen its branch
Selected == head # {} /\ pc \notin {"select"}

\* build_git_filter_path_spec has returned
Resolved == artifact.written \/ pc = "write"

\* C1: at the end of every run the target location is either untouched (what
\* main() found there, or what somebody else put there, is still there) or
\* holds the processed clone; no run ends with the old target removed and no
\* result in its place.
C1_TargetUntouchedOrReplaced ==
    pc = "done" => target \in {"result", "absent", "old", "foreign"}

\* C2: without --force (and without --only-specs) shutil.rmtree is never
\* applied to the target, and a target found at validation ends the run
\* fatally before the clone is made.
C2_NoRemovalWithoutForce ==
    (~arguments.force /\ ~arguments.onlySpecs) =>
        /\ "rmtree" \notin targetOps
        /\ critical = "target-exists" => (exit = "fatal" /\ "clone" \notin invoked)

\* C3: with --only-specs the run stops after writing and printing the path
\* list: filter-repo, rm, checkout, diff-index and commit are never invoked,
\* main() applies no operation to the target whether or not it exists and
\* whether or not --force is given, and a run that wrote the list returns
\* success with the list printed.
C3_OnlySpecsStops ==
    arguments.onlySpecs =>
        /\ invoked \cap {"filter-repo", "rm", "checkout", "diff-index", "commit"} = {}
        /\ targetOps = {}
        /\ target \in {"absent", "old", "foreign"}
        /\ critical # "target-exists"
        /\ (pc = "done" /\ artifact.written) =>
              /\ exit = "success"
              /\ stdout = [printed |-> TRUE, lines |-> artifact.lines]

\* C3 witness: an --only-specs run over an existing target, without --force,
\* has printed a non-empty path list and returned success.
C3_Witness ==
    /\ arguments.onlySpecs /\ ~arguments.force
    /\ pc = "done" /\ exit = "success"
    /\ stdout.printed /\ Len(stdout.lines) > 0
    /\ target = "old"

\* C4: a run through main() whose filter names an existing file and that has
\* no --glob selects the explicit list (one entry per line, no globbing, no
\* stop at a blank line); the glob pattern list is selected only with
\* --glob.  With the rewrite tool installed and a valid source, such a run
\* selects no variant only when the target validation is fatal or the clone
\* fails.
C4_ExplicitWithoutGlob ==
    cwdKind = "file" =>
        /\ variant = "GlobPatternList" => arguments.glob
        /\ (pc = "checkEmpty" /\ ~arguments.glob) =>
              /\ variant = "ExplicitFileList"
              /\ init_files_list = ExplicitList(workclone, infile)
        /\ ( /\ ~arguments.glob /\ toolState = "present" /\ sourceState = "repo"
             /\ pc = "done" /\ variant = "none" ) =>
              (critical = "target-exists" \/ "clone" \in invoked)

\* C5: a filter that does not name an existing file (it names nothing, or a
\* directory) is handled as Subdirectory: the listing of cloneRoot/filter is
\* used when that is a directory, and the run ends with the fatal diagnostic
\* when it is not; it is never opened as a list file.
C5_SubdirectoryWhenNotAFile ==
    (Selected /\ cwdKind # "file") =>
        /\ variant = "Subdirectory"
        /\ IF is_dir(Join(workclone, arguments.filter))
           THEN /\ critical # "filter-not-dir"
                /\ pc = "checkEmpty" =>
                     Range(init_files_list) =
                         rglob(Join(workclone, arguments.filter), <<"*">>)
           ELSE exit = "fatal" /\ critical = "filter-not-dir"

\* C6: when git filter-repo is absent (no git binary, or git without the
\* filter-repo subcommand) main() logs the critical guidance and ends with
\* the fatal exit code before any clone, never with an unhandled exception.
C6_MissingToolIsFatal ==
    (toolState # "present" /\ pc # "probe") =>
        /\ exit = "fatal"
        /\ critical = "no-filter-repo"
        /\ "clone" \notin invoked

\* C7: the returned path list holds the relative path of every regular file
\* of init_files_list, whichever history queries failed.
C7_OwnPathAlwaysIncluded ==
    Resolved =>
        \A i \in 1..Len(init_files_list) :
            is_file(init_files_list[i]) =>
                RelativeTo(init_files_list[i], workclone) \in Range(all_filter_paths)

\* C8: whenever the path list is written or git filter-repo is invoked the
\* resolved path list is not empty.
C8_ResolvedNonEmpty ==
    (artifact.written \/ "filter-repo" \in invoked) => all_filter_paths # <<>>

\* C9: the returned path list, the artifact and the printed list hold each
\* path at most once.
C9_Deduplicated ==
    Resolved =>
        /\ NoDuplicates(all_filter_paths)
        /\ NoDuplicates(artifact.lines)
        /\ NoDuplicates(stdout.lines)

\* C10: after wipe and restore main() creates one commit when the index
\* differs from HEAD and none when it equals HEAD: at most one commit per
\* run, a commit only of an index that differs from HEAD, a run that goes on
\* to the move with a differing index has committed it, and git commit is
\* invoked only when diff-index did not return 0.
C10_CommitOnlyWhenDirty ==
    [][ /\ commits' <= 1
        /\ commits' # commits =>
              /\ pc = "commit" /\ commits' = commits + 1
              /\ index # head /\ is_dirty # 0
              /\ head' = index
        /\ (pc = "commit" /\ pc' = "move") =>
              commits' = (IF index # head THEN commits + 1 ELSE commits)
        /\ ("commit" \in invoked' /\ "commit" \notin invoked) =>
              (pc = "commit" /\ is_dirty # 0)
        /\ (pc = "commit" /\ is_dirty = 0) => "commit" \notin invoked' ]_vars

\* C10 witness: a complete run whose restore left the index different from
\* HEAD: exactly one commit, then the move.
C10_Witness ==
    /\ pc = "done" /\ exit = "success" /\ target = "result"
    /\ is_dirty = 1 /\ commits = 1 /\ head = index /\ head # CloneFiles

====
